---- MODULE Spec2Model ----
(***************************************************************************)
(* Model of scripts/aggregate-status.py: one run of the status aggregator. *)
(* The run is a pipeline  ensure directory -> load files -> sort ->        *)
(* render board -> exit, wrapped in the top-level try/except of __main__.  *)
(***************************************************************************)
EXTENDS Integers, Sequences, FiniteSets, TLC

(***************************************************************************)
(* Bounds of the model.                                                    *)
(***************************************************************************)
MaxRunFiles == 2       \* record files besides system.json in a full run
MaxSortLen == 2        \* loaded records in the sorter specification
MaxBoardLen == 3       \* loaded records in the board specification
MaxCompletedLen == 7   \* loaded records in the completions specification
MaxDurationLen == 2    \* loaded records in the duration specification
MaxStart == 3          \* latest `started` tick in the duration specification
MaxClock == 6          \* latest small render-time tick, duration specification
TicksPerSecond == 2    \* resolution of the clock: ticks in one second

(***************************************************************************)
(* Strings.  Python compares str values by code point, lexicographically.  *)
(***************************************************************************)
CodePoints ==
  [ a       |-> <<97>>,
    b       |-> <<98>>,
    system  |-> <<115, 121, 115, 116, 101, 109>>,
    unknown |-> <<117, 110, 107, 110, 111, 119, 110>>,
    x       |-> <<120>>,
    y       |-> <<121>>,
    z       |-> <<122>> ]

RECURSIVE LexLess(_, _)
LexLess(s, t) ==
  IF t = <<>> THEN FALSE
  ELSE IF s = <<>> THEN TRUE
  ELSE IF Head(s) # Head(t) THEN Head(s) < Head(t)
  ELSE LexLess(Tail(s), Tail(t))

StrLess(s, t) == LexLess(CodePoints[s], CodePoints[t])

(***************************************************************************)
(* Records.  A status record is a JSON object; a key that is absent from   *)
(* the object holds Missing, a key whose value is JSON null holds Null.    *)
(* `started` is kept as the pair (kind of text, instant in ticks).         *)
(***************************************************************************)
Missing == "<missing>"
Null == "<null>"

NoStart == [kind |-> "missing", t |-> 0]

BlankRecord ==
  [agentId |-> Missing, status |-> Missing, lane |-> Missing,
   task |-> Missing, started |-> NoStart]

KnownStatuses == {"in_progress", "blocked", "waiting", "idle", "completed"}

\* A parsed JSON value held in the agents list: an object, or a truthy
\* value of another JSON type (array, string, number).
Obj(r) == [kind |-> "record", data |-> r]
NonObject == [kind |-> "nonobject", data |-> BlankRecord]

\* dict.get(key, default)
Get(a, k, d) == IF a.data[k] = Missing THEN d ELSE a.data[k]

\* create_system_status()
create_system_status ==
  Obj([BlankRecord EXCEPT !.agentId = "system", !.status = "idle"])

(***************************************************************************)
(* Files.  The content of a file of the status directory, by what          *)
(* safe_json_load does with it.                                            *)
(***************************************************************************)
File(k) == [kind |-> k, data |-> BlankRecord]
Absent == File("absent")
RecordFile(r) == [kind |-> "record", data |-> r]

AllJsonNames ==
  <<"system.json", "a.json", "b.json", "c.json", "d.json",
    "e.json", "f.json", "g.json", "h.json", "i.json", "j.json">>
JsonNames == {AllJsonNames[i] : i \in 1..Len(AllJsonNames)}
OtherNames == {"notes.txt"}
FileNames == JsonNames \cup OtherNames

\* Variant: the pattern matches every file of the directory
GlobAnyFile(fs) == {n \in FileNames : fs[n].kind # "absent"}

\* status_dir.glob('*.json')
Glob(fs) == {n \in JsonNames : fs[n].kind # "absent"}

\* safe_json_load(filepath): "value", "none" (warning printed) or "raise"
LoadOutcome(c) ==
  CASE c.kind \in {"unreadable", "badjson"} -> "none"
    [] c.kind = "badutf8" -> "raise"
    [] OTHER -> "value"

\* `if agent_data:` after a load that returned a value
Truthy(c) == c.kind \in {"record", "nonobject"}

(***************************************************************************)
(* Sorter (lines 65-76).                                                   *)
(***************************************************************************)
priority ==
  [in_progress |-> 0, blocked |-> 1, waiting |-> 2, idle |-> 3,
   completed |-> 4]

\* priority.get(status, default)
PriorityGet(s, d) == IF s \in DOMAIN priority THEN priority[s] ELSE d

\* key=lambda a: (priority.get(a.get('status', 'idle'), 5),
\*                a.get('agentId', 'unknown'))
SortKey(a) ==
  <<PriorityGet(Get(a, "status", "idle"), 5), Get(a, "agentId", "unknown")>>

\* tuple comparison k1 < k2
KeyLess(k1, k2) ==
  \/ k1[1] < k2[1]
  \/ k1[1] = k2[1] /\ StrLess(k1[2], k2[2])

\* Variant: an element goes before the elements whose key equals its own
InsertLeft(s, a) ==
  LET p == Cardinality({i \in 1..Len(s) : KeyLess(SortKey(s[i]), SortKey(a))})
  IN SubSeq(s, 1, p) \o <<a>> \o SubSeq(s, p + 1, Len(s))

\* list.sort on a short list is a binary insertion sort: each element goes
\* right after the last element whose key is not greater than its own.
InsertRight(s, a) ==
  LET p == Cardinality({i \in 1..Len(s) : ~KeyLess(SortKey(a), SortKey(s[i]))})
  IN SubSeq(s, 1, p) \o <<a>> \o SubSeq(s, p + 1, Len(s))

RECURSIVE ListSort(_)
ListSort(s) ==
  IF s = <<>> THEN <<>>
  ELSE InsertRight(ListSort(SubSeq(s, 1, Len(s) - 1)), s[Len(s)])

(***************************************************************************)
(* Renderer (lines 79-184).                                                *)
(***************************************************************************)
\* Variant: blocked records are not active
IsActiveNotBlocked(a) == a.data.status \notin {"idle", "completed", "blocked"}

IsActive(a) == a.data.status \notin {"idle", "completed"}
IsBlocked(a) == a.data.status = "blocked"
IsIdle(a) == a.data.status = "idle"
IsCompleted(a) == a.data.status = "completed"

ActiveOf(s) == SelectSeq(s, IsActive)
BlockedOf(s) == SelectSeq(s, IsBlocked)
IdleOf(s) == SelectSeq(s, IsIdle)
CompletedOf(s) == SelectSeq(s, IsCompleted)

\* completed[:5]
RecentLimit == 5
\* Variant: the slice is dropped
RecentAll(s) == s

Recent(s) == SubSeq(s, 1, IF Len(s) < RecentLimit THEN Len(s) ELSE RecentLimit)

\* str(timedelta).split('.')[0] as <<days, hours, minutes, seconds>>; the
\* timedelta is normalised so that only the day count can be negative.
Placeholder == <<>>
TimedeltaStr(ticks) ==
  LET secs == ticks \div TicksPerSecond
      rem == secs % 86400
  IN <<secs \div 86400, rem \div 3600, (rem % 3600) \div 60, rem % 60>>

\* lines 93-99: datetime.fromisoformat raises ValueError on text that is not
\* ISO-8601; subtracting a timestamp without offset from the aware
\* datetime.now(timezone.utc) raises TypeError; the bare except maps both
\* to the placeholder.
Duration(a, now) ==
  LET st == a.data.started
  IN CASE st.kind \in {"missing", "empty"} -> Placeholder
       [] st.kind = "garbage" -> Placeholder
       [] st.kind = "naive" -> Placeholder
       [] st.kind = "aware" -> TimedeltaStr(now - st.t)

ActiveRow(a, now) ==
  [agentId |-> Get(a, "agentId", "unknown"),
   status |-> Get(a, "status", "unknown"),
   duration |-> Duration(a, now)]

NameRow(a) == [agentId |-> Get(a, "agentId", "unknown")]

\* agent.get('task', '-')[:30] raises TypeError when task is JSON null
TaskFails(a) == a.data.task = Null

\* lines 162-174
RECURSIVE LaneStats(_)
LaneStats(s) ==
  IF s = <<>> THEN [l \in {} |-> 0]
  ELSE LET prev == LaneStats(SubSeq(s, 1, Len(s) - 1))
           a == s[Len(s)]
           lane == Get(a, "lane", "unknown")
           old == IF lane \in DOMAIN prev THEN prev[lane]
                  ELSE [active |-> 0, idle |-> 0, blocked |-> 0]
           status == Get(a, "status", "idle")
           new == IF status \in {"in_progress", "waiting"}
                    THEN [old EXCEPT !.active = @ + 1]
                  ELSE IF status = "blocked"
                    THEN [old EXCEPT !.blocked = @ + 1]
                  ELSE [old EXCEPT !.idle = @ + 1]
       IN [l \in DOMAIN prev \cup {lane} |-> IF l = lane THEN new ELSE prev[l]]

\* sorted(lanes.items()): ascending by lane name
RECURSIVE SortedNames(_)
SortedNames(S) ==
  IF S = {} THEN <<>>
  ELSE LET m == CHOOSE n \in S : \A o \in S \ {n} : StrLess(n, o)
       IN <<m>> \o SortedNames(S \ {m})

\* Variant: the total leaves the blocked count out
LaneRowNoBlocked(lane, stats) ==
  [lane |-> lane, active |-> stats.active, blocked |-> stats.blocked,
   idle |-> stats.idle,
   total |-> stats.active + stats.idle]

LaneRow(lane, stats) ==
  [lane |-> lane, active |-> stats.active, blocked |-> stats.blocked,
   idle |-> stats.idle,
   total |-> stats.active + stats.blocked + stats.idle]

LaneRows(s) ==
  LET lanes == LaneStats(s)
      names == SortedNames(DOMAIN lanes)
  IN [i \in 1..Len(names) |-> LaneRow(names[i], lanes[names[i]])]

NameRows(s) == [i \in 1..Len(s) |-> NameRow(s[i])]

\* Variant: the heading is written for an empty table too
SectionAlways(name, rows) == <<name>>

Section(name, rows) == IF rows = <<>> THEN <<>> ELSE <<name>>

\* The document written when rendering runs to the end.
Board(s, now) ==
  LET active == ActiveOf(s)
      blocked == BlockedOf(s)
      idle == IdleOf(s)
      completed == CompletedOf(s)
      lanes == LaneRows(s)
  IN [kind |-> "board",
      error |-> "none",
      total |-> Len(s),
      sections |-> Section("Active Work", active)
                   \o Section("Blocked Agents", blocked)
                   \o Section("Idle Agents", idle)
                   \o Section("Recent Completions", completed)
                   \o <<"Statistics">>
                   \o Section("Lane Utilization", lanes),
      active |-> [i \in 1..Len(active) |-> ActiveRow(active[i], now)],
      blocked |-> NameRows(blocked),
      idle |-> NameRows(idle),
      completed |-> NameRows(Recent(completed)),
      stats |-> [active |-> Len(active), blocked |-> Len(blocked),
                 idle |-> Len(idle), completed |-> Len(completed)],
      lanes |-> lanes]

\* A row that raises while the board is being written (lines 108-113, 149-152)
RenderRaises(s) ==
  \/ \E i \in 1..Len(ActiveOf(s)) : TaskFails(ActiveOf(s)[i])
  \/ \E i \in 1..Len(Recent(CompletedOf(s))) : TaskFails(Recent(CompletedOf(s))[i])

\* Documents other than a full board, in the same shape.
Doc(k, e) ==
  [kind |-> k, error |-> e, total |-> 0, sections |-> <<>>, active |-> <<>>,
   blocked |-> <<>>, idle |-> <<>>, completed |-> <<>>,
   stats |-> [active |-> 0, blocked |-> 0, idle |-> 0, completed |-> 0],
   lanes |-> <<>>]
NoDoc == Doc("absent", "none")
OldDoc == Doc("old", "none")
PartialDoc == Doc("partial", "none")
ErrorDoc(e) == Doc("error", e)

(***************************************************************************)
(* State of one run.                                                       *)
(***************************************************************************)
VARIABLES
  pc,           \* position of the run
  dirExists,    \* whether agent-status/ exists
  files,        \* content of each file of agent-status/
  outWritable,  \* whether AGENT-STATUS.md can be opened for writing
  out,          \* content of AGENT-STATUS.md
  agents,       \* the list `agents`
  loaded,       \* history: `agents` as the loader left it
  warnings,     \* files for which safe_json_load printed a warning
  err,          \* the exception that left aggregate_status(), if any
  uncaught,     \* an exception left the except clause of __main__
  exitCode,     \* process exit status, -1 while running
  clock,        \* datetime.now(timezone.utc) of the run, in ticks
  dirExists0,   \* history: dirExists at start
  files0,       \* history: files at start
  out0          \* history: out at start

vars ==
  <<pc, dirExists, files, outWritable, out, agents, loaded, warnings, err,
    uncaught, exitCode, clock, dirExists0, files0, out0>>

NoFiles == [n \in FileNames |-> Absent]

\* Sequences over S of length at most n
UpTo(S, n) == UNION {[1..k -> S] : k \in 0..n}

\* The orders in which glob can yield a set of names
Orderings(S) ==
  {o \in [1..Cardinality(S) -> S] : \A i, j \in DOMAIN o : i # j => o[i] # o[j]}

(***************************************************************************)
(* Inputs of the full-run specification.                                   *)
(***************************************************************************)
RunRecords ==
  { [BlankRecord EXCEPT !.agentId = "a", !.status = "in_progress", !.task = Null],
    [BlankRecord EXCEPT !.agentId = "b", !.status = "idle"],
    [BlankRecord EXCEPT !.agentId = "z", !.status = "completed"] }

RunContents ==
  {File(k) : k \in {"absent", "unreadable", "badjson", "badutf8",
                    "nonobject", "falsy"}}
    \cup {RecordFile(r) : r \in RunRecords}

RunNames == {AllJsonNames[i] : i \in 1..(1 + MaxRunFiles)}

Init ==
  /\ pc = "ensure_dir"
  /\ dirExists \in BOOLEAN
  /\ \E rf \in [RunNames -> RunContents], nt \in {Absent, File("text")} :
       files = IF dirExists
                 THEN [n \in FileNames |->
                         IF n \in RunNames THEN rf[n]
                         ELSE IF n \in OtherNames THEN nt ELSE Absent]
                 ELSE NoFiles
  /\ outWritable \in BOOLEAN
  /\ out \in {NoDoc, OldDoc}
  /\ agents = <<>>
  /\ loaded = <<>>
  /\ warnings = {}
  /\ err = "none"
  /\ uncaught = FALSE
  /\ exitCode = -1
  /\ clock = 0
  /\ dirExists0 = dirExists
  /\ files0 = files
  /\ out0 = out

(***************************************************************************)
(* Steps of the run.                                                       *)
(***************************************************************************)
\* Variant: the placeholder is written whether or not the directory exists
EnsureDirAlwaysWrites ==
  /\ pc = "ensure_dir"
  /\ dirExists' = TRUE
  /\ files' = [files EXCEPT !["system.json"] = create_system_status]
  /\ pc' = "load"
  /\ UNCHANGED <<outWritable, out, agents, loaded, warnings, err, uncaught,
                 exitCode, clock, dirExists0, files0, out0>>

\* lines 35-45
EnsureDir ==
  /\ pc = "ensure_dir"
  /\ IF ~dirExists
       THEN /\ dirExists' = TRUE
            /\ files' = [files EXCEPT !["system.json"] = create_system_status]
       ELSE UNCHANGED <<dirExists, files>>
  /\ pc' = "load"
  /\ UNCHANGED <<outWritable, out, agents, loaded, warnings, err, uncaught,
                 exitCode, clock, dirExists0, files0, out0>>

\* Index of the first file of the order whose load raises, or one past the end
FirstRaise(order) ==
  LET bad == {i \in DOMAIN order : LoadOutcome(files[order[i]]) = "raise"}
  IN IF bad = {} THEN Len(order) + 1
     ELSE CHOOSE i \in bad : \A j \in bad : i <= j

\* lines 60-63 over the first k files of the order
LoadedValues(order, k) ==
  LET Keep(n) == LoadOutcome(files[n]) = "value" /\ Truthy(files[n])
      kept == SelectSeq(SubSeq(order, 1, k), Keep)
  IN [i \in 1..Len(kept) |-> files[kept[i]]]

Warned(order, k) ==
  {order[i] : i \in {j \in 1..k : LoadOutcome(files[order[j]]) = "none"}}

\* lines 47-63
LoadFiles ==
  /\ pc = "load"
  /\ IF Glob(files) = {}
       THEN /\ files' = [files EXCEPT !["system.json"] = create_system_status]
            /\ agents' = <<create_system_status>>
            /\ pc' = "sort"
            /\ UNCHANGED <<warnings, err>>
       ELSE \E order \in Orderings(Glob(files)) :
              LET k == FirstRaise(order)
              IN /\ agents' = LoadedValues(order, k - 1)
                 /\ warnings' = Warned(order, k - 1)
                 /\ IF k <= Len(order)
                      THEN pc' = "handler" /\ err' = "UnicodeDecodeError"
                      ELSE pc' = "sort" /\ UNCHANGED err
                 /\ UNCHANGED files
  /\ loaded' = agents'
  /\ UNCHANGED <<dirExists, outWritable, out, uncaught, exitCode, clock,
                 dirExists0, files0, out0>>

\* lines 65-76: the key function raises AttributeError on a value that is
\* not an object
SortAgents ==
  /\ pc = "sort"
  /\ IF \E i \in DOMAIN agents : agents[i].kind # "record"
       THEN pc' = "handler" /\ err' = "AttributeError" /\ UNCHANGED agents
       ELSE pc' = "render" /\ agents' = ListSort(agents) /\ UNCHANGED err
  /\ UNCHANGED <<dirExists, files, outWritable, out, loaded, warnings,
                 uncaught, exitCode, clock, dirExists0, files0, out0>>

\* lines 79-184: open(..., 'w') truncates the file; a row that raises leaves
\* the part written so far
RenderBoard ==
  /\ pc = "render"
  /\ IF ~outWritable
       THEN pc' = "handler" /\ err' = "OSError" /\ UNCHANGED out
       ELSE IF RenderRaises(agents)
         THEN pc' = "handler" /\ err' = "TypeError" /\ out' = PartialDoc
         ELSE pc' = "success" /\ out' = Board(agents, clock) /\ UNCHANGED err
  /\ UNCHANGED <<dirExists, files, outWritable, agents, loaded, warnings,
                 uncaught, exitCode, clock, dirExists0, files0, out0>>

\* lines 186-189, then the interpreter exits normally
ExitSuccess ==
  /\ pc = "success"
  /\ pc' = "exited"
  /\ exitCode' = 0
  /\ UNCHANGED <<dirExists, files, outWritable, out, agents, loaded, warnings,
                 err, uncaught, clock, dirExists0, files0, out0>>

\* Variant: the except clause does not call exit(1)
HandleErrorNoExit ==
  /\ pc = "handler"
  /\ IF outWritable
       THEN out' = ErrorDoc(err) /\ UNCHANGED uncaught /\ exitCode' = 0
       ELSE uncaught' = TRUE /\ UNCHANGED out /\ exitCode' = 1
  /\ pc' = "exited"
  /\ UNCHANGED <<dirExists, files, outWritable, agents, loaded, warnings,
                 err, clock, dirExists0, files0, out0>>

\* lines 194-201: an open() that fails inside the except clause leaves it as
\* an uncaught exception, for which the interpreter exits with status 1
HandleError ==
  /\ pc = "handler"
  /\ IF outWritable
       THEN out' = ErrorDoc(err) /\ UNCHANGED uncaught
       ELSE uncaught' = TRUE /\ UNCHANGED out
  /\ exitCode' = 1
  /\ pc' = "exited"
  /\ UNCHANGED <<dirExists, files, outWritable, agents, loaded, warnings,
                 err, clock, dirExists0, files0, out0>>

Next ==
  \/ EnsureDir
  \/ LoadFiles
  \/ SortAgents
  \/ RenderBoard
  \/ ExitSuccess
  \/ HandleError

Spec == Init /\ [][Next]_vars

(***************************************************************************)
(* Specifications of the stages after loading.  Each starts in the state   *)
(* the loader leaves: the directory holds one record file per loaded       *)
(* record, read in directory order.                                        *)
(***************************************************************************)
FilesOf(s) ==
  [n \in FileNames |->
     IF \E i \in 1..Len(s) : AllJsonNames[i + 1] = n
       THEN s[CHOOSE i \in 1..Len(s) : AllJsonNames[i + 1] = n]
       ELSE Absent]

InitLoaded(inputs, clocks) ==
  /\ pc = "sort"
  /\ dirExists = TRUE
  /\ agents \in inputs
  /\ loaded = agents
  /\ files = FilesOf(agents)
  /\ outWritable \in BOOLEAN
  /\ out = NoDoc
  /\ warnings = {}
  /\ err = "none"
  /\ uncaught = FALSE
  /\ exitCode = -1
  /\ clock \in clocks
  /\ dirExists0 = dirExists
  /\ files0 = files
  /\ out0 = out

NextLoaded ==
  \/ SortAgents
  \/ RenderBoard
  \/ ExitSuccess
  \/ HandleError

\* Sorter: every status, recognised or not, with every kind of agentId
SortRecords ==
  {Obj([BlankRecord EXCEPT !.status = st, !.agentId = id]) :
     st \in KnownStatuses \cup {Missing, "paused"},
     id \in {Missing, "a", "unknown", "z"}}

InitSort == InitLoaded(UpTo(SortRecords, MaxSortLen), {0})
SortSpec == InitSort /\ [][NextLoaded]_vars

\* Board: every status in each of three lanes
BoardRecords ==
  {Obj([BlankRecord EXCEPT !.status = st, !.lane = ln, !.agentId = "a"]) :
     st \in KnownStatuses \cup {Missing, "paused"},
     ln \in {Missing, "x", "y"}}

InitBoard == InitLoaded(UpTo(BoardRecords, MaxBoardLen), {0})
BoardSpec == InitBoard /\ [][NextLoaded]_vars

\* Completions: more completed records than the table shows
CompletedRecords ==
  {Obj([BlankRecord EXCEPT !.status = "completed", !.agentId = id]) :
     id \in {Missing, "a", "z"}}
    \cup {Obj([BlankRecord EXCEPT !.status = "idle", !.agentId = "b"])}

InitCompleted == InitLoaded(UpTo(CompletedRecords, MaxCompletedLen), {0})
CompletedSpec == InitCompleted /\ [][NextLoaded]_vars

\* Duration: active records with every kind of `started`, rendered at or
\* after the instants they name
StartedValues ==
  {[kind |-> k, t |-> 0] : k \in {"missing", "empty", "garbage"}}
    \cup {[kind |-> k, t |-> t] : k \in {"aware", "naive"}, t \in 0..MaxStart}

DurationRecords ==
  {Obj([BlankRecord EXCEPT !.status = "in_progress", !.agentId = "a",
                           !.started = st]) : st \in StartedValues}

RenderTimes ==
  (MaxStart..MaxClock)
    \cup {90 * TicksPerSecond + k : k \in 0..(MaxStart + 1)}

InitDuration == InitLoaded(UpTo(DurationRecords, MaxDurationLen), RenderTimes)
DurationSpec == InitDuration /\ [][NextLoaded]_vars

(***************************************************************************)
(* Properties of a full run (Spec).                                        *)
(***************************************************************************)
Exited == pc = "exited"

\* A record file that cannot be read or parsed, or whose value is not an
\* object.  (A file holding an empty value -- null, 0, [], {} -- is dropped
\* by `if agent_data:` without a warning and is left out of both sets.)
Malformed(c) == c.kind \in {"unreadable", "badjson", "badutf8", "nonobject"}
MalformedNames == {n \in JsonNames : Malformed(files0[n])}
ValidNames == {n \in JsonNames : files0[n].kind = "record"}

\* C1: with a writable output path and valid records that all render, a run
\* over a directory holding a malformed record file ends with exit code 0,
\* a normal board listing every valid sibling record, and a warning for
\* every malformed file.
C1_MalformedNeverAborts ==
  ( /\ Exited
    /\ outWritable
    /\ MalformedNames # {}
    /\ \A n \in ValidNames : files0[n].data.task # Null )
  => /\ exitCode = 0
     /\ out.kind = "board"
     /\ out.total = Cardinality(ValidNames)
     /\ MalformedNames \subseteq warnings

Failed == Exited /\ err # "none"

\* C3 as stated, for the two failures it names (an output path that cannot
\* be opened, a row that raises part-way through rendering): the failed run
\* leaves the minimal error document at the output path and exits with a
\* non-zero status.
C3_ErrorDocumentAlways ==
  (Failed /\ err \in {"OSError", "TypeError"}) =>
    out.kind = "error" /\ exitCode # 0

\* C3 amended: every failed run exits with a non-zero status; the output
\* path holds the minimal error document (never a full or partial board)
\* when it can be opened for writing, and otherwise is left as it was while
\* the second failure leaves the process uncaught.
C3_ErrorDocumentWhenWritable ==
  Failed =>
    /\ exitCode # 0
    /\ outWritable => out = ErrorDoc(err) /\ ~uncaught
    /\ ~outWritable => out = out0 /\ uncaught

C3_Witness ==
  Exited /\ err = "TypeError" /\ out0 = OldDoc /\ out = ErrorDoc("TypeError")

\* the record files (names ending in .json) present in a directory content
RecordFilesIn(fs) == {n \in FileNames : n \notin OtherNames /\ fs[n] # Absent}
NoRecordFiles0 == ~dirExists0 \/ RecordFilesIn(files0) = {}

\* C4: from a missing status directory, or one without record files, the
\* finished run leaves the directory existing with exactly one record file,
\* the placeholder with agentId "system" and status "idle".
C4_PlaceholderIsSoleRecord ==
  (Exited /\ NoRecordFiles0) =>
    /\ dirExists
    /\ RecordFilesIn(files) = {"system.json"}
    /\ files["system.json"].kind = "record"
    /\ files["system.json"].data.agentId = "system"
    /\ files["system.json"].data.status = "idle"

C4_Witness ==
  /\ Exited
  /\ dirExists0
  /\ files0["notes.txt"].kind = "text"
  /\ RecordFilesIn(files0) = {}
  /\ RecordFilesIn(files) = {"system.json"}

\* C5: a run never deletes or overwrites a file that was in the status
\* directory: every file that existed at start is unchanged in every state
\* of the run, whether it succeeds or fails; the only changes are the
\* creation of the directory and of system.json when there was no record
\* file.
C5_ExistingFilesUntouched ==
  /\ dirExists0 => dirExists
  /\ \A n \in FileNames :
       /\ files0[n].kind # "absent" => files[n] = files0[n]
       /\ files[n] # files0[n] =>
            /\ n = "system.json"
            /\ NoRecordFiles0
            /\ files[n] = create_system_status

C5_Witness ==
  /\ Exited
  /\ exitCode = 1
  /\ files0["notes.txt"].kind = "text"
  /\ files0["system.json"].kind = "absent"
  /\ files["system.json"].kind = "record"

EmptyDir0 == dirExists0 /\ files0 = NoFiles

\* C6: for an empty status directory (and a writable output path) the run
\* writes a board with total count 1, an Idle Agents section whose only row
\* is the placeholder, and no Active Work, Blocked Agents or Recent
\* Completions section.
C6_EmptyDirectoryBoard ==
  (Exited /\ EmptyDir0 /\ outWritable) =>
    /\ out.kind = "board"
    /\ out.total = 1
    /\ out.idle = <<[agentId |-> "system"]>>
    /\ out.sections = <<"Idle Agents", "Statistics", "Lane Utilization">>
    /\ out.active = <<>> /\ out.blocked = <<>> /\ out.completed = <<>>

C6_Witness ==
  Exited /\ EmptyDir0 /\ out.kind = "board" /\ out.total = 1

(***************************************************************************)
(* Properties of the sorter (SortSpec).                                    *)
(***************************************************************************)
SortReturned == pc = "render"

IdOf(a) == IF a.data.agentId = Missing THEN "unknown" ELSE a.data.agentId

\* rank as the claim states it: a missing status ranks 5
StatedRank(a) ==
  CASE a.data.status = "in_progress" -> 0
    [] a.data.status = "blocked" -> 1
    [] a.data.status = "waiting" -> 2
    [] a.data.status = "idle" -> 3
    [] a.data.status = "completed" -> 4
    [] OTHER -> 5

\* rank as amended: a missing status ranks with idle
AmendedRank(a) == IF a.data.status = Missing THEN 3 ELSE StatedRank(a)

\* out is the stable sort of in, ascending by (rank, agentId): every input
\* element sits after the elements with a smaller key and after the earlier
\* input elements with an equal key, and before all others.
IsStableSort(result, input, rank(_)) ==
  LET Before(u, v) ==
        \/ rank(u) < rank(v)
        \/ rank(u) = rank(v) /\ StrLess(IdOf(u), IdOf(v))
      Tied(u, v) == rank(u) = rank(v) /\ IdOf(u) = IdOf(v)
      Place(j) ==
        1 + Cardinality({k \in DOMAIN input : Before(input[k], input[j])})
          + Cardinality({k \in 1..(j - 1) : Tied(input[k], input[j])})
  IN /\ Len(result) = Len(input)
     /\ \A j \in DOMAIN input : result[Place(j)] = input[j]

\* C2 as stated: the sorter returns the stable sort by (rank, agentId) with
\* unrecognised and missing statuses at rank 5.
C2_StableSortMissingLast ==
  SortReturned => IsStableSort(agents, loaded, StatedRank)

\* C2 amended: the sorter returns the stable sort by (rank, agentId) where
\* in_progress=0, blocked=1, waiting=2, idle=3, completed=4, an unrecognised
\* status ranks 5 and a missing status ranks 3 like idle; a missing agentId
\* compares as "unknown"; equal keys keep their input order.
C2_StableSortMissingAsIdle ==
  SortReturned => IsStableSort(agents, loaded, AmendedRank)

C2_Witness ==
  /\ SortReturned
  /\ Len(loaded) = 2
  /\ loaded[1].data.status = "completed" /\ loaded[1].data.agentId = "a"
  /\ loaded[2].data.status = Missing /\ loaded[2].data.agentId = Missing
  /\ agents = <<loaded[2], loaded[1]>>

(***************************************************************************)
(* Properties of the board (BoardSpec, CompletedSpec, DurationSpec).       *)
(***************************************************************************)
BoardWritten == out.kind = "board"

Count(P(_)) == Cardinality({i \in DOMAIN agents : P(agents[i])})

\* the i-th record of the sorted list that is listed as active
NthActive(i) ==
  agents[CHOOSE k \in DOMAIN agents :
           /\ agents[k].data.status \notin {"idle", "completed"}
           /\ Cardinality({m \in 1..(k - 1) :
                             agents[m].data.status \notin {"idle", "completed"}})
                = i - 1]

\* the i-th record of the sorted list that has status completed
NthCompleted(i) ==
  agents[CHOOSE k \in DOMAIN agents :
           /\ agents[k].data.status = "completed"
           /\ Cardinality({m \in 1..(k - 1) :
                             agents[m].data.status = "completed"}) = i - 1]

LaneOf(a) == IF a.data.lane = Missing THEN "unknown" ELSE a.data.lane

\* C8: the Lane Utilization table has one row per distinct lane (missing
\* lane = "unknown"), ascending by lane name; per lane, active counts
\* in_progress and waiting, blocked counts blocked, idle counts every other
\* status, and total = active + blocked + idle = records in the lane.
C8_LaneUtilization ==
  BoardWritten =>
    LET InLane(l) == {i \in DOMAIN agents : LaneOf(agents[i]) = l}
        With(l, S) == Cardinality({i \in InLane(l) : agents[i].data.status \in S})
        rows == out.lanes
    IN /\ {rows[i].lane : i \in DOMAIN rows}
            = {LaneOf(agents[i]) : i \in DOMAIN agents}
       /\ \A i, j \in DOMAIN rows : i < j => StrLess(rows[i].lane, rows[j].lane)
       /\ \A i \in DOMAIN rows :
            LET r == rows[i]
            IN /\ r.active = With(r.lane, {"in_progress", "waiting"})
               /\ r.blocked = With(r.lane, {"blocked"})
               /\ r.idle = Cardinality(InLane(r.lane)) - r.active - r.blocked
               /\ r.total = r.active + r.blocked + r.idle
               /\ r.total = Cardinality(InLane(r.lane))

C8_Witness ==
  /\ BoardWritten
  /\ {loaded[i].data.status : i \in DOMAIN loaded} = {"waiting", "blocked"}
  /\ Len(loaded) = 2
  /\ \A i \in DOMAIN loaded : loaded[i].data.lane = "x"
  /\ out.lanes = <<[lane |-> "x", active |-> 1, blocked |-> 1, idle |-> 0,
                    total |-> 2]>>

\* C9: in the Active Work table a record whose `started` parses as an
\* ISO-8601 timestamp shows the elapsed whole seconds from `started` to
\* render time, and the placeholder appears only when `started` is absent
\* or does not parse.
C9_DurationWheneverParsed ==
  BoardWritten =>
    \A i \in DOMAIN out.active :
      LET st == NthActive(i).data.started
          secs == (clock - st.t) \div TicksPerSecond
      IN /\ st.kind \in {"aware", "naive"} =>
              out.active[i].duration
                = <<0, secs \div 3600, (secs % 3600) \div 60, secs % 60>>
         /\ out.active[i].duration = Placeholder =>
              st.kind \in {"missing", "empty", "garbage"}

\* C10: on a successful run Active + Idle + Completed = Total Agents = the
\* number of loaded records; every blocked record is also listed as active,
\* so the four groups sum to the total plus the blocked count.
C10_StatisticsPartition ==
  (Exited /\ exitCode = 0) =>
    LET st == out.stats
    IN /\ out.total = Len(loaded)
       /\ st.active + st.idle + st.completed = out.total
       /\ st.active = Len(out.active) /\ st.idle = Len(out.idle)
       /\ st.blocked = Len(out.blocked)
       /\ st.blocked =
            Cardinality({i \in DOMAIN out.active : out.active[i].status = "blocked"})
       /\ st.blocked =
            Cardinality({i \in DOMAIN loaded : loaded[i].data.status = "blocked"})
       /\ st.active + st.blocked + st.idle + st.completed = out.total + st.blocked

C10_Witness ==
  /\ Exited /\ exitCode = 0
  /\ out.stats = [active |-> 2, blocked |-> 1, idle |-> 0, completed |-> 1]

====
